---------------------------- MODULE Spec2Model ----------------------------
(***************************************************************************)
(* StarBotShop (src/main.py): the JSON user ledger (UserDataManager), the  *)
(* per-user conversation scratch state (context.user_data) and the admin   *)
(* settlement handler (TelegramBotApp._admin_action_handler).              *)
(*                                                                         *)
(* Strings.  A Python string is modelled by the list of its "_"-separated  *)
(* fields, i.e. by what str.split("_") returns for it: "al_x" is           *)
(* <<"al", "x">>, "bob" is <<"bob">>, the empty string is <<"">>.  An      *)
(* f-string that puts "_" between two strings concatenates the lists.      *)
(* Optional values (None, a missing dict key) are sequences of length at   *)
(* most one: <<>> is None, <<v>> is the value v.                           *)
(***************************************************************************)
EXTENDS Integers, Sequences, FiniteSets, TLC

\* ------------------------------------------------------------- bounds
\* Updates (commands, texts, button presses) the bot receives in one run,
\* restarts of the process included.
MaxEvents == 9
\* Concurrent UserDataManager calls in the concurrency scenario.
NumTasks == 2

\* ---------------------------------------------------- program constants
MinAmount == 50
MaxAmount == 1000000
\* max(2, ...) of the price, and STAR_RATE (1.3 RUB per star), in kopecks.
MinPriceKopecks == 200
StarRateKopecks == 130

\* ------------------------------------------------------------ universe
Users == {1, 2}
None == <<>>
Some(v) == <<v>>

\* Display names a user may carry when a /start arrives
\* (user.username or user.first_name).
UserNames(u) == IF u = 1 THEN {<<"Bob">>, <<"al", "x">>} ELSE {<<"al">>}
\* Handles typed after "@" in the gift flow.
Handles == {<<"bob">>, <<"al">>, <<"al", "x">>, <<"">>}
\* Numbers typed as an amount, and a text that is no number.
AmountsTyped == {30, 50, 60, 1000001}

\* str(n) and int(s), as a table over the numbers the model uses.
Numerals ==
    { <<1, "1">>, <<2, "2">>, <<9, "9">>, <<30, "30">>, <<50, "50">>,
      <<60, "60">>, <<1000001, "1000001">> }
IntToStr(n) == (CHOOSE p \in Numerals : p[1] = n)[2]
\* int(s): None stands for ValueError.
ParseInt(s) ==
    IF Len(s) = 1 /\ \E p \in Numerals : p[2] = s[1]
    THEN Some((CHOOSE p \in Numerals : p[2] = s[1])[1])
    ELSE None

\* context.args of /start: no argument, or one argument given as its
\* first character and the rest: "r1" (the referral code of user 1),
\* "rabc" and "x1".
StartArgs ==
    {None, Some([first |-> "r", rest |-> <<"1">>]),
           Some([first |-> "r", rest |-> <<"abc">>]),
           Some([first |-> "x", rest |-> <<"1">>])}

\* str.lower(), field by field.
LowerField(f) == IF f = "Bob" THEN "bob" ELSE f
Lower(s) == [i \in 1..Len(s) |-> LowerField(s[i])]

\* Python truthiness of a string: the empty string is falsy.
Truthy(s) == s # <<"">>

\* -------------------------------------------- the ledger (a JSON dict)
\* The dict of the file, in insertion order: a sequence of entries
\* [key, username, referrals, total_earned, balance_stars, referred_by].
HasKey(data, k) == \E i \in 1..Len(data) : data[i].key = k
IndexOf(data, k) == CHOOSE i \in 1..Len(data) : data[i].key = k
Entry(data, k) == data[IndexOf(data, k)]
Keys(data) == {data[i].key : i \in 1..Len(data)}

\* data[user_key] = {...} of get_or_create_user, for a key not in data.
NewUser(user_id, username, referred_by) ==
    [key |-> user_id, username |-> username, referrals |-> 0,
     total_earned |-> 0, balance_stars |-> 0, referred_by |-> referred_by]

\* data[user_key]["balance_stars"] += amount
AddBalance(data, k, amount) ==
    [data EXCEPT ![IndexOf(data, k)].balance_stars = @ + amount]

\* Mutant: the return sits outside the comparison, so the first entry of
\* a non-empty dict is returned whatever its username.
find_user_by_usernameFirst(data, username) ==
    IF data = <<>> THEN None ELSE Some(data[1].key)

\* find_user_by_username: the first entry, in dict order, whose username
\* equals the argument case-insensitively; None when there is none.
find_user_by_username(data, username) ==
    LET hits == {i \in 1..Len(data) : Lower(data[i].username) = Lower(username)}
    IN  IF hits = {} THEN None
        ELSE Some(data[CHOOSE i \in hits : \A j \in hits : i <= j].key)


\* ------------------------------------------------------------- state
VARIABLES
    file,       \* what load_data returns for user_data.json (a missing,
                \* empty or undecodable file reads as the empty dict)
    lock,       \* UserDataManager._file_lock: 0 when free, else the holder
    userData,   \* context.user_data of each user
    optionsLive,\* per user: "for me / as a gift" messages whose buttons are still attached
    offersLive, \* per user: payment offers whose "I paid" button is still attached
    adminMsgs,  \* the admin chat: one message per settlement request, with its
                \* two callback payloads and its marker; credits counts the
                \* saves made on its behalf, request is what the handler
                \* encoded and resolved tells whether the entered handle
                \* named a record when the request was sent (all three for
                \* the properties only)
    pending,    \* callback queries the administrator has sent, not yet handled
    cur,        \* the handler the dispatcher is running (one update at a time)
    effects,    \* file accesses and outbound Bot API calls of that handler, in order
    events,     \* updates received and restarts so far
    tasks,      \* concurrency scenario: the UserDataManager calls in flight
    file0       \* concurrency scenario: the file when the calls were started

vars == <<file, lock, userData, optionsLive, offersLive, adminMsgs, pending,
          cur, effects, events, tasks, file0>>

botVars == <<userData, optionsLive, offersLive, adminMsgs, pending, cur,
             effects, events>>

\* Users who walk the purchase flow; the others only register.
Buyers == {1}

\* An empty context.user_data.  amount_flow is no key of the program: it
\* keeps, for the properties only, the friend_username under which the
\* stored payment_amount was accepted (None: the "for me" flow).
EmptyUserData ==
    [awaiting_amount |-> FALSE, awaiting_friend_username |-> FALSE,
     friend_username |-> None, payment_amount |-> None,
     payment_price |-> None, payment_comment |-> None, amount_flow |-> None]

Idle == [kind |-> "none", pc |-> "done"]

Init ==
    /\ file = <<>>
    /\ lock = 0
    /\ userData = [u \in Users |-> EmptyUserData]
    /\ optionsLive = [u \in Users |-> 0]
    /\ offersLive = [u \in Users |-> 0]
    /\ adminMsgs = <<>>
    /\ pending = <<>>
    /\ cur = Idle
    /\ effects = <<>>
    /\ events = 0
    /\ tasks = <<>>
    /\ file0 = <<>>

\* Outbound calls and file accesses, as entries of the effects log.
Load == [op |-> "load"]
Save == [op |-> "save"]
Reply(u, what) == [op |-> "reply", to |-> u, what |-> what]
Send(u, what, amount) == [op |-> "send", to |-> u, what |-> what, amount |-> amount]

\* ------------------------------------------------------------ /start
\* Mutant: the record is written whether or not the key exists.
get_or_create_userOverwrite(data, user_id, username, referred_by) ==
    IF HasKey(data, user_id)
    THEN [data EXCEPT ![IndexOf(data, user_id)] = NewUser(user_id, username, referred_by)]
    ELSE Append(data, NewUser(user_id, username, referred_by))

\* get_or_create_user, run to completion: the dict after it, and
\* whether it saved.
get_or_create_user(data, user_id, username, referred_by) ==
    IF HasKey(data, user_id) THEN data
    ELSE Append(data, NewUser(user_id, username, referred_by))

\* The referred_by that _start parses from context.args.
ParseReferral(args) ==
    IF args # None /\ args[1].first = "r" THEN ParseInt(args[1].rest) ELSE None

\* _start: parse the referral code, get_or_create_user, _set_menu.
Start(u, name, args) ==
    /\ cur.pc = "done"
    /\ file' = get_or_create_user(file, u, name, ParseReferral(args))
    /\ effects' = (IF HasKey(file, u) THEN <<Load>> ELSE <<Load, Save>>)
                    \o <<Reply(u, "menu")>>
    /\ cur' = [kind |-> "start", pc |-> "done", user |-> u]
    /\ events' = events + 1
    /\ UNCHANGED <<lock, userData, optionsLive, offersLive, adminMsgs,
                   pending, tasks, file0>>

\* ------------------------------------------------------- conversation
\* A text message, after strip(): whether it starts with "@", and the
\* rest of it.  The two menu labels are the one-field texts "BUY", "REF".
Texts ==
    {[at |-> TRUE, body |-> h] : h \in Handles}
      \cup {[at |-> FALSE, body |-> <<IntToStr(n)>>] : n \in AmountsTyped}
      \cup {[at |-> FALSE, body |-> <<w>>] : w \in {"abc", "BUY", "REF"}}

\* int(text): None stands for ValueError.
IntOfText(text) == IF text.at THEN None ELSE ParseInt(text.body)

\* max(2, round(amount * rate, 2)), in kopecks.
PriceOf(amount) ==
    IF amount * StarRateKopecks > MinPriceKopecks
    THEN amount * StarRateKopecks ELSE MinPriceKopecks

\* f"Stars_{amount}_uid{user_id}"
CommentOf(amount, user_id) == <<"Stars", IntToStr(amount), "uid" \o IntToStr(user_id)>>

\* _handle_friend_username
HandleFriendUsername(u, text) ==
    /\ IF ~text.at
       THEN /\ effects' = <<Reply(u, "need_at")>>
            /\ UNCHANGED userData
       ELSE /\ userData' = [userData EXCEPT ![u].friend_username = Some(text.body),
                                            ![u].awaiting_friend_username = FALSE,
                                            ![u].awaiting_amount = TRUE]
            /\ effects' = <<Reply(u, "recipient_set")>>
    /\ UNCHANGED <<file, optionsLive, offersLive>>

\* Mutant: the range check tests the upper bound only.
HandleAmountInputNoMinimum(u, text) ==
    LET parsed == IntOfText(text) IN
    /\ IF parsed = None
       THEN /\ effects' = <<Reply(u, "not_a_number")>>
            /\ UNCHANGED <<userData, offersLive>>
       ELSE IF ~(parsed[1] <= MaxAmount)
       THEN /\ effects' = <<Reply(u, "out_of_range")>>
            /\ UNCHANGED <<userData, offersLive>>
       ELSE /\ userData' = [userData EXCEPT
                               ![u].payment_amount = Some(parsed[1]),
                               ![u].payment_price = Some(PriceOf(parsed[1])),
                               ![u].payment_comment = Some(CommentOf(parsed[1], u)),
                               ![u].awaiting_amount = FALSE,
                               ![u].amount_flow = userData[u].friend_username]
            /\ effects' = <<Reply(u, "offer")>>
            /\ offersLive' = [offersLive EXCEPT ![u] = @ + 1]
    /\ UNCHANGED <<file, optionsLive>>

\* _handle_amount_input
HandleAmountInput(u, text) ==
    LET parsed == IntOfText(text) IN
    /\ IF parsed = None
       THEN /\ effects' = <<Reply(u, "not_a_number")>>
            /\ UNCHANGED <<userData, offersLive>>
       ELSE IF ~(MinAmount <= parsed[1] /\ parsed[1] <= MaxAmount)
       THEN /\ effects' = <<Reply(u, "out_of_range")>>
            /\ UNCHANGED <<userData, offersLive>>
       ELSE /\ userData' = [userData EXCEPT
                               ![u].payment_amount = Some(parsed[1]),
                               ![u].payment_price = Some(PriceOf(parsed[1])),
                               ![u].payment_comment = Some(CommentOf(parsed[1], u)),
                               ![u].awaiting_amount = FALSE,
                               ![u].amount_flow = userData[u].friend_username]
            /\ effects' = <<Reply(u, "offer")>>
            /\ offersLive' = [offersLive EXCEPT ![u] = @ + 1]
    /\ UNCHANGED <<file, optionsLive>>

\* _handle_text_input, with _show_purchase_options and _partner_program
\* (get_user_stats reads the file).
TextInput(u, text) ==
    /\ cur.pc = "done"
    /\ cur' = Idle
    /\ IF userData[u].awaiting_friend_username
       THEN HandleFriendUsername(u, text)
       ELSE IF userData[u].awaiting_amount
       THEN HandleAmountInput(u, text)
       ELSE IF text = [at |-> FALSE, body |-> <<"BUY">>]
       THEN /\ effects' = <<Reply(u, "options")>>
            /\ optionsLive' = [optionsLive EXCEPT ![u] = @ + 1]
            /\ UNCHANGED <<file, userData, offersLive>>
       ELSE IF text = [at |-> FALSE, body |-> <<"REF">>]
       THEN /\ effects' = <<Load, Reply(u, "referral")>>
            /\ UNCHANGED <<file, userData, optionsLive, offersLive>>
       ELSE /\ effects' = <<>>
            /\ UNCHANGED <<file, userData, optionsLive, offersLive>>
    /\ events' = events + 1
    /\ UNCHANGED <<lock, adminMsgs, pending, tasks, file0>>

\* _purpose_handler: a press of "for me" (purpose_self) or "as a gift"
\* (purpose_friend) on a message that still shows the buttons;
\* edit_message_text drops that message's keyboard.
Purpose(u, purpose) ==
    /\ cur.pc = "done"
    /\ optionsLive[u] > 0
    /\ optionsLive' = [optionsLive EXCEPT ![u] = @ - 1]
    /\ cur' = Idle
    /\ userData' =
         [userData EXCEPT
            ![u].friend_username = None,
            ![u].awaiting_amount = IF purpose = "purpose_self" THEN TRUE ELSE @,
            ![u].awaiting_friend_username = IF purpose = "purpose_friend" THEN TRUE ELSE @]
    /\ effects' = <<Reply(u, purpose)>>
    /\ events' = events + 1
    /\ UNCHANGED <<file, lock, offersLive, adminMsgs, pending, tasks, file0>>

\* --------------------------------------------------------- "I paid"
\* ADMIN_CHAT_ID, a chat that is no user's.
AdminChat == 0

\* callback_data of the two admin buttons.
ConfirmToken(user_id, amount, friend_username) ==
    IF friend_username # None /\ Truthy(friend_username[1])
    THEN <<"admin", "confirm", "gift", IntToStr(user_id), IntToStr(amount)>>
           \o friend_username[1]
    ELSE <<"admin", "confirm", "self", IntToStr(user_id), IntToStr(amount)>>

DeclineToken(user_id) == <<"admin", "decline", IntToStr(user_id)>>

\* all([amount, price, comment])
HasPaymentData(ud) ==
    /\ ud.payment_amount # None /\ ud.payment_amount[1] # 0
    /\ ud.payment_price # None /\ ud.payment_price[1] # 0
    /\ ud.payment_comment # None /\ ud.payment_comment[1] # <<"">>

\* The message sent to the admin chat for user u's pending purchase: the
\* callback_data of its two buttons and, for the properties only, the
\* request as the handler holds it when it builds them.
AdminMessage(u) ==
    [confirm |-> ConfirmToken(u, userData[u].payment_amount[1],
                              userData[u].friend_username),
     decline |-> DeclineToken(u),
     marker |-> "open",
     credits |-> 0,
     request |-> [payer |-> u, amount |-> userData[u].payment_amount[1],
                  friend_username |-> userData[u].friend_username,
                  flow |-> userData[u].amount_flow],
     resolved |-> /\ userData[u].friend_username # None
                  /\ find_user_by_username(file,
                         userData[u].friend_username[1]) # None]

\* Mutant: the return after the "no payment data" answer is missing, so
\* the administrator is messaged all the same.
PaymentConfirmNoReturn(u) ==
    /\ cur.pc = "done"
    /\ offersLive[u] > 0
    /\ cur' = Idle
    /\ IF ~HasPaymentData(userData[u])
       THEN /\ effects' = <<Reply(u, "no_payment_data"), Send(AdminChat, "request", 0)>>
            /\ UNCHANGED <<offersLive, adminMsgs>>
       ELSE /\ offersLive' = [offersLive EXCEPT ![u] = @ - 1]
            /\ adminMsgs' = Append(adminMsgs, AdminMessage(u))
            /\ effects' = <<Reply(u, "under_review"), Send(AdminChat, "request", 0)>>
    /\ events' = events + 1
    /\ UNCHANGED <<file, lock, userData, optionsLive, pending, tasks, file0>>

\* _payment_confirm_handler: a press of "I paid" on an offer that still
\* shows the button.
PaymentConfirm(u) ==
    /\ cur.pc = "done"
    /\ offersLive[u] > 0
    /\ cur' = Idle
    /\ IF ~HasPaymentData(userData[u])
       THEN /\ effects' = <<Reply(u, "no_payment_data")>>
            /\ UNCHANGED <<offersLive, adminMsgs>>
       ELSE /\ offersLive' = [offersLive EXCEPT ![u] = @ - 1]
            /\ adminMsgs' = Append(adminMsgs, AdminMessage(u))
            /\ effects' = <<Reply(u, "under_review"), Send(AdminChat, "request", 0)>>
    /\ events' = events + 1
    /\ UNCHANGED <<file, lock, userData, optionsLive, pending, tasks, file0>>

\* ------------------------------------------------------- settlement
\* The administrator presses a button of a request whose keyboard is
\* still attached; the callback query waits for the dispatcher.
AdminPress(i, button) ==
    /\ cur.pc = "done"
    /\ i \in 1..Len(adminMsgs)
    /\ adminMsgs[i].marker = "open"
    /\ events' = events + 1
    /\ pending' = Append(pending,
         [msg |-> i,
          data |-> IF button = "confirm" THEN adminMsgs[i].confirm
                   ELSE adminMsgs[i].decline])
    /\ UNCHANGED <<file, lock, userData, optionsLive, offersLive, adminMsgs,
                   cur, effects, tasks, file0>>

\* int(s) of a token field written by str(): always a number.
IntOf(s) == ParseInt(<<s>>)[1]

\* _admin_action_handler up to its first await on the ledger or the bot:
\* parts = query.data.split("_") and the branch taken.
AdminDispatch ==
    /\ cur.pc = "done"
    /\ pending # <<>>
    /\ LET q == Head(pending)
           parts == q.data
       IN  cur' =
             [kind |-> "admin", msg |-> q.msg, parts |-> parts, pre |-> file,
              data |-> <<>>, recipient_id |-> None,
              pc |-> IF parts[2] = "confirm"
                     THEN (IF parts[3] = "self" THEN "add_load"
                           ELSE IF parts[3] = "gift" THEN "find" ELSE "done")
                     ELSE IF parts[2] = "decline" THEN "notify_decline" ELSE "done"]
    /\ pending' = Tail(pending)
    /\ effects' = <<>>
    /\ UNCHANGED <<file, lock, userData, optionsLive, offersLive, adminMsgs,
                   events, tasks, file0>>

\* The fields the handler reads from parts (Python indexes from 0).
IsSelf(c) == c.kind = "admin" /\ c.parts[2] = "confirm" /\ c.parts[3] = "self"
IsGift(c) == c.kind = "admin" /\ c.parts[2] = "confirm" /\ c.parts[3] = "gift"
IsDecline(c) == c.kind = "admin" /\ c.parts[2] = "decline"
PayerOf(c) == IF IsDecline(c) THEN IntOf(c.parts[3]) ELSE IntOf(c.parts[4])
\* Mutant: the amount is read from the field of the payer id.
AmountOfPayerField(c) == IntOf(c.parts[4])
AmountOf(c) == IntOf(c.parts[5])
RecipientUsername(c) == <<c.parts[6]>>
\* Mutant: the gift is credited to the payer.
CreditPayer(c) == PayerOf(c)

\* The user add_user_balance is called for.
CreditTarget(c) == IF IsSelf(c) THEN PayerOf(c) ELSE c.recipient_id[1]

AdminFrame == <<lock, userData, optionsLive, offersLive, pending, events, tasks, file0>>

\* gift: recipient_id = await find_user_by_username(recipient_username)
AdminFind ==
    /\ cur.pc = "find"
    /\ LET found == find_user_by_username(file, RecipientUsername(cur))
       IN  cur' = [cur EXCEPT !.recipient_id = found,
                              !.pc = IF found # None THEN "add_load"
                                     ELSE "notify_notfound"]
    /\ effects' = Append(effects, Load)
    /\ UNCHANGED <<file, adminMsgs>>
    /\ UNCHANGED AdminFrame

\* Mutant: the success message is sent before add_user_balance saves.
AdminAddLoadNotifyFirst ==
    /\ cur.pc = "add_load"
    /\ cur' = [cur EXCEPT !.data = file,
                          !.pc = IF HasKey(file, CreditTarget(cur))
                                 THEN "add_save" ELSE "notify"]
    /\ effects' = effects \o
          <<Send(CreditTarget(cur), IF IsSelf(cur) THEN "topped_up" ELSE "gift_received",
                 AmountOf(cur)), Load>>
    /\ UNCHANGED <<file, adminMsgs>>
    /\ UNCHANGED AdminFrame

\* add_user_balance: data = await self.load_data()
AdminAddLoad ==
    /\ cur.pc = "add_load"
    /\ cur' = [cur EXCEPT !.data = file,
                          !.pc = IF HasKey(file, CreditTarget(cur))
                                 THEN "add_save" ELSE "notify"]
    /\ effects' = Append(effects, Load)
    /\ UNCHANGED <<file, adminMsgs>>
    /\ UNCHANGED AdminFrame

\* add_user_balance: balance_stars += amount; await self.save_data(data)
AdminAddSave ==
    /\ cur.pc = "add_save"
    /\ file' = AddBalance(cur.data, CreditTarget(cur), AmountOf(cur))
    /\ adminMsgs' = [adminMsgs EXCEPT ![cur.msg].credits = @ + 1]
    /\ cur' = [cur EXCEPT !.pc = "notify"]
    /\ effects' = Append(effects, Save)
    /\ UNCHANGED AdminFrame

\* The first send_message after add_user_balance: to the payer (self)
\* or to the recipient (gift).
AdminNotify ==
    /\ cur.pc = "notify"
    /\ IF IsSelf(cur)
       THEN /\ effects' = Append(effects, Send(PayerOf(cur), "topped_up", AmountOf(cur)))
            /\ cur' = [cur EXCEPT !.pc = "edit_confirmed"]
       ELSE /\ effects' = Append(effects,
                 Send(cur.recipient_id[1], "gift_received", AmountOf(cur)))
            /\ cur' = [cur EXCEPT !.pc = "notify_payer"]
    /\ UNCHANGED <<file, adminMsgs>>
    /\ UNCHANGED AdminFrame

\* gift, recipient found: the second send_message, to the payer.
AdminNotifyPayer ==
    /\ cur.pc = "notify_payer"
    /\ effects' = Append(effects, Send(PayerOf(cur), "gift_delivered", AmountOf(cur)))
    /\ cur' = [cur EXCEPT !.pc = "edit_delivered"]
    /\ UNCHANGED <<file, adminMsgs>>
    /\ UNCHANGED AdminFrame

\* gift, recipient not found: the failure message to the payer.
AdminNotifyNotFound ==
    /\ cur.pc = "notify_notfound"
    /\ effects' = Append(effects, Send(PayerOf(cur), "recipient_not_found", AmountOf(cur)))
    /\ cur' = [cur EXCEPT !.pc = "edit_notfound"]
    /\ UNCHANGED <<file, adminMsgs>>
    /\ UNCHANGED AdminFrame

\* Mutant: the decline message goes to the administrator's chat.
AdminNotifyDeclineToAdmin ==
    /\ cur.pc = "notify_decline"
    /\ effects' = Append(effects, Send(AdminChat, "declined", 0))
    /\ cur' = [cur EXCEPT !.pc = "edit_declined"]
    /\ UNCHANGED <<file, adminMsgs>>
    /\ UNCHANGED AdminFrame

\* decline: the decline message to the payer.
AdminNotifyDecline ==
    /\ cur.pc = "notify_decline"
    /\ effects' = Append(effects, Send(PayerOf(cur), "declined", 0))
    /\ cur' = [cur EXCEPT !.pc = "edit_declined"]
    /\ UNCHANGED <<file, adminMsgs>>
    /\ UNCHANGED AdminFrame

\* query.edit_message_text: the terminal marker replaces the keyboard of
\* the request message.
AdminEdit ==
    /\ cur.pc \in {"edit_confirmed", "edit_delivered", "edit_notfound", "edit_declined"}
    /\ adminMsgs' = [adminMsgs EXCEPT ![cur.msg].marker =
          IF cur.pc = "edit_confirmed" THEN "confirmed"
          ELSE IF cur.pc = "edit_delivered" THEN "delivered"
          ELSE IF cur.pc = "edit_notfound" THEN "notfound" ELSE "declined"]
    /\ cur' = [cur EXCEPT !.pc = "done"]
    /\ UNCHANGED <<file, effects>>
    /\ UNCHANGED AdminFrame

\* ------------------------------------------------------------ restart
\* The process is stopped and started again between two updates: the
\* Application is built without persistence, so every context.user_data
\* starts empty, while user_data.json, the messages already sent (with
\* their keyboards) and the callback queries Telegram still holds remain.
Restart ==
    /\ cur.pc = "done"
    /\ userData' = [u \in Users |-> EmptyUserData]
    /\ cur' = Idle
    /\ effects' = <<>>
    /\ events' = events + 1
    /\ UNCHANGED <<file, lock, optionsLive, offersLive, adminMsgs, pending,
                   tasks, file0>>

\* ------------------------------------------------- the bot, one update
\* at a time (Application.builder().build(): concurrent_updates is off).
\* The bound of a run.
WithinBounds == events' <= MaxEvents

\* The steps of _admin_action_handler after the dispatch.
AdminSteps ==
    \/ AdminFind
    \/ AdminAddLoad
    \/ AdminAddSave
    \/ AdminNotify
    \/ AdminNotifyPayer
    \/ AdminNotifyNotFound
    \/ AdminNotifyDecline
    \/ AdminEdit

Next ==
    \/ \E u \in Users : \E name \in UserNames(u) : \E args \in StartArgs :
         Start(u, name, args) /\ WithinBounds
    \/ \E u \in Buyers : \E text \in Texts :
         TextInput(u, text) /\ WithinBounds
    \/ \E u \in Buyers : \E purpose \in {"purpose_self", "purpose_friend"} :
         Purpose(u, purpose) /\ WithinBounds
    \/ \E u \in Buyers : PaymentConfirm(u) /\ WithinBounds
    \/ \E i \in 1..Len(adminMsgs) : \E button \in {"confirm", "decline"} :
         AdminPress(i, button) /\ WithinBounds
    \/ Restart /\ WithinBounds
    \/ AdminDispatch
    \/ AdminSteps

Spec == Init /\ [][Next]_vars

\* ---------------------------------------- concurrent ledger calls
\* NumTasks coroutines, each one call of add_user_balance or
\* get_or_create_user on the same UserDataManager, run on one event
\* loop: a coroutine runs until its next await, where another may run.
\* load_data and save_data each take _file_lock for their own body only.
ConcUsers == {1, 2, 3}
Calls ==
    {[op |-> "add", user |-> u, amount |-> k] : u \in ConcUsers, k \in {50, 60}}
      \cup {[op |-> "create", user |-> u] : u \in ConcUsers}

StartFiles ==
    { <<NewUser(1, <<"Bob">>, None)>>,
      <<NewUser(1, <<"Bob">>, None), NewUser(2, <<"al">>, Some(1))>> }

InitConc ==
    /\ file0 \in StartFiles
    /\ file = file0
    /\ lock = 0
    /\ tasks \in [1..NumTasks -> {[call |-> c, pc |-> "load_acquire", data |-> <<>>] :
                                   c \in Calls}]
    /\ userData = [u \in Users |-> EmptyUserData]
    /\ optionsLive = [u \in Users |-> 0]
    /\ offersLive = [u \in Users |-> 0]
    /\ adminMsgs = <<>>
    /\ pending = <<>>
    /\ cur = Idle
    /\ effects = <<>>
    /\ events = 0

\* load_data: async with self._file_lock
LoadAcquire(t) ==
    /\ tasks[t].pc = "load_acquire"
    /\ lock = 0
    /\ lock' = t
    /\ tasks' = [tasks EXCEPT ![t].pc = "load_read"]
    /\ UNCHANGED <<file, file0>>
    /\ UNCHANGED botVars

\* What the caller does with the loaded dict up to its next await:
\* the dict it is about to save, or None when it returns without saving.
ToSave(call, data) ==
    IF call.op = "add"
    THEN (IF HasKey(data, call.user)
          THEN Some(AddBalance(data, call.user, call.amount)) ELSE None)
    ELSE (IF HasKey(data, call.user) THEN None
          ELSE Some(Append(data, NewUser(call.user, <<"zed">>, None))))

\* load_data: read the file, release the lock, return to the caller.
LoadRead(t) ==
    /\ tasks[t].pc = "load_read"
    /\ lock' = 0
    /\ LET out == ToSave(tasks[t].call, file)
       IN  tasks' = [tasks EXCEPT
                       ![t].data = IF out = None THEN file ELSE out[1],
                       ![t].pc = IF out = None THEN "done" ELSE "save_acquire"]
    /\ UNCHANGED <<file, file0>>
    /\ UNCHANGED botVars

\* save_data: async with self._file_lock
SaveAcquire(t) ==
    /\ tasks[t].pc = "save_acquire"
    /\ lock = 0
    /\ lock' = t
    /\ tasks' = [tasks EXCEPT ![t].pc = "save_open"]
    /\ UNCHANGED <<file, file0>>
    /\ UNCHANGED botVars

\* save_data: aiofiles.open(mode="w") truncates the file.
SaveOpen(t) ==
    /\ tasks[t].pc = "save_open"
    /\ file' = <<>>
    /\ tasks' = [tasks EXCEPT ![t].pc = "save_write"]
    /\ UNCHANGED <<lock, file0>>
    /\ UNCHANGED botVars

\* save_data: write the dump, release the lock.
SaveWrite(t) ==
    /\ tasks[t].pc = "save_write"
    /\ file' = tasks[t].data
    /\ lock' = 0
    /\ tasks' = [tasks EXCEPT ![t].pc = "done"]
    /\ UNCHANGED file0
    /\ UNCHANGED botVars

NextConc ==
    \E t \in 1..NumTasks :
        \/ LoadAcquire(t)
        \/ LoadRead(t)
        \/ SaveAcquire(t)
        \/ SaveOpen(t)
        \/ SaveWrite(t)

SpecConc == InitConc /\ [][NextConc]_vars

\* ------------------------------------------------------ properties
\* The stored balance of a user; a user without a record has none to
\* speak of, which counts as 0.
StoredBalance(data, u) == IF HasKey(data, u) THEN Entry(data, u).balance_stars ELSE 0

\* The send_message calls in a log of effects.
Sends(log) == SelectSeq(log, LAMBDA e : e.op = "send")
Writes(log) == SelectSeq(log, LAMBDA e : e.op = "save")

AllDone == tasks # <<>> /\ \A t \in 1..NumTasks : tasks[t].pc = "done"

\* The handler of an administrator press has run to its end.
Settled(c) == c.kind = "admin" /\ c.pc = "done"

\* C1: N concurrent add_user_balance(u, k) calls on an existing user u
\* leave u's stored balance at its initial balance + N*k.
C1_NoLostUpdate ==
    \A u \in ConcUsers : \A k \in {50, 60} :
        ( /\ AllDone
          /\ HasKey(file0, u)
          /\ \A t \in 1..NumTasks :
                tasks[t].call = [op |-> "add", user |-> u, amount |-> k] )
        => StoredBalance(file, u) = StoredBalance(file0, u) + NumTasks * k

\* C2: on behalf of one settlement request the ledger is written at most
\* once, whatever buttons of that request the administrator presses and
\* however often.
C2_SingleUseToken ==
    \A i \in 1..Len(adminMsgs) : adminMsgs[i].credits <= 1

\* C3: a confirmed self top-up of A for payer P raises P's stored balance
\* by exactly A, changes no other record and sends P exactly one success
\* message.
C3_SelfTopup ==
    (Settled(cur) /\ IsSelf(cur)) =>
        /\ StoredBalance(file, PayerOf(cur)) =
              StoredBalance(cur.pre, PayerOf(cur)) + AmountOf(cur)
        /\ \A u \in Users \ {PayerOf(cur)} :
              /\ HasKey(file, u) <=> HasKey(cur.pre, u)
              /\ HasKey(file, u) => Entry(file, u) = Entry(cur.pre, u)
        /\ Sends(effects) = <<Send(PayerOf(cur), "topped_up", AmountOf(cur))>>

\* The handle of a gift request names no record: no username equals it
\* case-insensitively.
Unresolvable(data, handle) ==
    \A i \in 1..Len(data) : Lower(data[i].username) # Lower(handle)

ResolvesTo(data, handle, r) ==
    \E i \in 1..Len(data) :
        /\ data[i].key = r
        /\ Lower(data[i].username) = Lower(handle)
        /\ \A j \in 1..(i - 1) : Lower(data[j].username) # Lower(handle)

GiftDelivered(r) ==
    /\ Settled(cur) /\ IsGift(cur)
    /\ ResolvesTo(cur.pre, RecipientUsername(cur), r)

C6_DeclineNoMutation ==
    IsDecline(cur) =>
        /\ file = cur.pre
        /\ Writes(effects) = <<>>
        /\ cur.pc = "done" =>
              Sends(effects) = <<Send(IntOf(adminMsgs[cur.msg].decline[3]), "declined", 0)>>

C6_Witness ==
    /\ Settled(cur) /\ IsDecline(cur)
    /\ HasKey(file, PayerOf(cur))
    /\ adminMsgs[cur.msg].marker = "declined"

\* C7: a /start of a user who has a record changes no field of any
\* record, whatever display name and referral code it carries, and the
\* store never holds two records of one id.
C7_GetOrCreateIdempotent ==
    [][ /\ \A i, j \in 1..Len(file') : file'[i].key = file'[j].key => i = j
        /\ (cur'.kind = "start" /\ HasKey(file, cur'.user)) => file' = file
        /\ \A i \in 1..Len(file) :
              /\ i <= Len(file')
              /\ file'[i].key = file[i].key
              /\ file'[i].referred_by = file[i].referred_by
              /\ file'[i].referrals = file[i].referrals
              /\ file'[i].total_earned = file[i].total_earned
      ]_vars

\* A /start was handled for a user whose record holds a credited balance
\* and a referrer: get_or_create_user only loaded.
C7_Witness ==
    /\ cur.kind = "start"
    /\ effects = <<Load, Reply(cur.user, "menu")>>
    /\ HasKey(file, cur.user)
    /\ Entry(file, cur.user).balance_stars > 0
    /\ Entry(file, cur.user).referred_by # None

\* C8: calls on different records do not undo each other: when the
\* concurrent calls target pairwise different users and one of them
\* creates a record, every created record and every credit is in the
\* store once all have finished.
C8_NoLostRecord ==
    ( /\ AllDone
      /\ \A s, t \in 1..NumTasks : tasks[s].call.user = tasks[t].call.user => s = t
      /\ \E t \in 1..NumTasks :
            tasks[t].call.op = "create" /\ ~HasKey(file0, tasks[t].call.user) )
    => \A t \in 1..NumTasks :
          IF tasks[t].call.op = "create"
          THEN HasKey(file, tasks[t].call.user)
          ELSE StoredBalance(file, tasks[t].call.user) =
                  IF HasKey(file0, tasks[t].call.user)
                  THEN StoredBalance(file0, tasks[t].call.user) + tasks[t].call.amount
                  ELSE 0

\* The success messages of a settlement.
IsSuccessSend(e) ==
    e.op = "send" /\ e.what \in {"topped_up", "gift_received", "gift_delivered"}

C10_ReferralCount ==
    \A i \in 1..Len(file) :
        file[i].referrals =
            Cardinality({j \in (i + 1)..Len(file) : file[j].referred_by = Some(file[i].key)})

\* ------------------------------------------ conversation properties
\* The input _handle_text_input expects of a user: it tests
\* awaiting_friend_username first, then awaiting_amount.
ExpectedInput(ud) ==
    IF ud.awaiting_friend_username THEN "awaiting_friend_handle"
    ELSE IF ud.awaiting_amount THEN "awaiting_amount" ELSE "none"

\* The pending purchase: amount, price and memo.
PendingPurchase(ud) == <<ud.payment_amount, ud.payment_price, ud.payment_comment>>
NoPurchase == <<None, None, None>>

\* The text is an integer of the inclusive range [50, 1000000].
InRangeInteger(text) ==
    /\ IntOfText(text) # None
    /\ IntOfText(text)[1] >= 50
    /\ IntOfText(text)[1] <= 1000000

\* The file accesses in a log of effects.
Accesses(log) == SelectSeq(log, LAMBDA e : e.op \in {"load", "save"})

\* C11: while an amount is expected of a user, a text that is no integer
\* or an integer outside [50, 1000000] is answered by one re-prompt,
\* leaves context.user_data as it was and neither reads nor writes the
\* store; an integer of the range fills the pending purchase with that
\* amount and ends the wait for an amount.
C11_AmountValidation ==
    [][ \A u \in Buyers : \A text \in Texts :
          (ExpectedInput(userData[u]) = "awaiting_amount" /\ TextInput(u, text)) =>
             IF InRangeInteger(text)
             THEN /\ userData'[u].payment_amount = IntOfText(text)
                  /\ userData'[u].payment_price # None
                  /\ userData'[u].payment_comment # None
                  /\ ExpectedInput(userData'[u]) = "none"
             ELSE /\ userData' = userData
                  /\ file' = file
                  /\ effects' \in {<<Reply(u, "not_a_number")>>,
                                   <<Reply(u, "out_of_range")>>}
      ]_vars

\* A number below the minimum was rejected in the gift flow, after the
\* handle was entered.
C11_Witness ==
    \E u \in Buyers :
        /\ effects = <<Reply(u, "out_of_range")>>
        /\ ExpectedInput(userData[u]) = "awaiting_amount"
        /\ userData[u].friend_username # None
        /\ PendingPurchase(userData[u]) = NoPurchase

\* C12: while a friend's handle is expected of a user, a text "@name"
\* whose name no record carries (find_user_by_username finds none) leaves
\* the user waiting for a handle and stores no recipient handle.
C12_UnresolvedHandleStays ==
    [][ \A u \in Buyers : \A text \in Texts :
          ( /\ ExpectedInput(userData[u]) = "awaiting_friend_handle"
            /\ text.at
            /\ find_user_by_username(file, text.body) = None
            /\ TextInput(u, text) ) =>
             /\ ExpectedInput(userData'[u]) = "awaiting_friend_handle"
             /\ userData'[u].friend_username = None
      ]_vars

\* The effects of an "I paid" press that issued a settlement request.
IssuedRequest(u) == <<Reply(u, "under_review"), Send(AdminChat, "request", 0)>>

\* C13: once an "I paid" press of a user has issued a settlement request,
\* the next update being another "I paid" press of that user (on the
\* button of an earlier offer, no amount entered in between) finds no
\* pending purchase: it answers "no payment data" and sends the
\* administrator nothing.
C13_PurchaseClearedOnIssue ==
    [][ \A u \in Buyers :
          (effects = IssuedRequest(u) /\ cur = Idle /\ PaymentConfirm(u)) =>
             /\ adminMsgs' = adminMsgs
             /\ effects' = <<Reply(u, "no_payment_data")>>
      ]_vars

\* C14: an "I paid" press of a user whose context.user_data lacks the
\* amount, the price or the memo is answered by the "no payment data"
\* alert and nothing else: no message to the administrator, no request,
\* no access to the store, and the conversation state stays as it is.
C14_DesyncOnPaid ==
    [][ \A u \in Buyers :
          ( /\ \E i \in 1..3 : PendingPurchase(userData[u])[i] = None
            /\ PaymentConfirm(u) ) =>
             /\ effects' = <<Reply(u, "no_payment_data")>>
             /\ adminMsgs' = adminMsgs
             /\ pending' = pending
             /\ file' = file
             /\ userData' = userData
      ]_vars

\* After a restart the button of an offer sent before it was pressed.
C14_Witness ==
    \E u \in Buyers :
        /\ effects = <<Reply(u, "no_payment_data")>>
        /\ offersLive[u] > 0
        /\ PendingPurchase(userData[u]) = NoPurchase

\* What _admin_action_handler reads from the callback_data of a confirm
\* button: parts[2], int(parts[3]), int(parts[4]) and, for a gift,
\* parts[5] (Python indexes from 0).
Decoded(token) ==
    [kind |-> token[3], payer |-> IntOf(token[4]), amount |-> IntOf(token[5]),
     recipient |-> IF token[3] = "gift" THEN Some(<<token[6]>>) ELSE None]

\* C15: for every settlement request the fields decoded from the confirm
\* token are the encoded ones: the payer, the amount, the kind (a gift
\* exactly when the handler found a non-empty friend_username) and, for
\* a gift, the handle as the payer entered it.
C15_TokenRoundTrip ==
    \A i \in 1..Len(adminMsgs) :
        LET r == adminMsgs[i].request
            t == Decoded(adminMsgs[i].confirm)
        IN  /\ t.payer = r.payer
            /\ t.amount = r.amount
            /\ t.kind = IF r.friend_username # None /\ Truthy(r.friend_username[1])
                        THEN "gift" ELSE "self"
            /\ t.kind = "gift" => t.recipient = r.friend_username

\* C16: when /start has been handled for a user, nothing is expected of
\* that user and no pending purchase or recipient handle is left in the
\* user's context.user_data.
C16_StartResets ==
    cur.kind = "start" =>
        /\ ExpectedInput(userData[cur.user]) = "none"
        /\ PendingPurchase(userData[cur.user]) = NoPurchase
        /\ userData[cur.user].friend_username = None

\* C17: every stored balance is a non-negative integer; from one state to
\* the next no record disappears and no balance decreases, and a balance
\* that changes grows by the amount of the request being settled, an
\* amount of [50, 1000000] that the amount step accepted.
C17_BalanceMonotone ==
    [][ /\ \A i \in 1..Len(file') :
              file'[i].balance_stars \in Nat
        /\ \A i \in 1..Len(file) :
              /\ i <= Len(file')
              /\ file'[i].key = file[i].key
              /\ file'[i].balance_stars >= file[i].balance_stars
              /\ file'[i].balance_stars # file[i].balance_stars =>
                    /\ cur.kind = "admin"
                    /\ file'[i].balance_stars - file[i].balance_stars =
                          adminMsgs[cur.msg].request.amount
                    /\ adminMsgs[cur.msg].request.amount >= 50
                    /\ adminMsgs[cur.msg].request.amount <= 1000000
      ]_vars

\* A second credit was added to a balance that already held one.
C17_Witness ==
    /\ cur.kind = "admin"
    /\ cur.pc = "notify"
    /\ Writes(effects) = <<Save>>
    /\ StoredBalance(cur.pre, CreditTarget(cur)) >= 50
    /\ StoredBalance(file, CreditTarget(cur)) =
          StoredBalance(cur.pre, CreditTarget(cur)) + AmountOf(cur)

\* C18: once the confirm of a self top-up has sent payer P the "balance
\* topped up by A" message, P's stored balance is A above what it was
\* when the administrator's press was taken up, whether or not P ever
\* sent /start.
C18_SuccessImpliesCredit ==
    ( /\ IsSelf(cur)
      /\ \E i \in 1..Len(effects) :
            effects[i] = Send(PayerOf(cur), "topped_up", AmountOf(cur)) )
    => /\ HasKey(file, PayerOf(cur))
       /\ StoredBalance(file, PayerOf(cur)) =
             StoredBalance(cur.pre, PayerOf(cur)) + AmountOf(cur)

\* The handle written into a gift token, as the text after the amount.
IssuedHandle(token) == SubSeq(token, 6, Len(token))

\* C19: a settlement request has the kind and the recipient of the flow
\* in which its amount was accepted: an amount accepted in the "for me"
\* flow is issued as a self top-up, an amount accepted in the gift flow
\* for a (non-empty) handle H is issued as a gift to H.
C19_RequestMatchesFlow ==
    \A i \in 1..Len(adminMsgs) :
        LET r == adminMsgs[i].request
            token == adminMsgs[i].confirm
        IN  /\ r.flow = None => token[3] = "self"
            /\ (r.flow # None /\ Truthy(r.flow[1])) =>
                  /\ token[3] = "gift"
                  /\ IssuedHandle(token) = r.flow[1]

\* C20: in no context.user_data are awaiting_amount and
\* awaiting_friend_username set together.
C20_SingleExpectedInput ==
    \A u \in Users :
        ~(userData[u].awaiting_amount /\ userData[u].awaiting_friend_username)

=============================================================================
